---------------------------- MODULE Spec2Model ----------------------------
(***************************************************************************)
(* Tap detection pipeline of touchful (lib/circleDetector.js):             *)
(* detectCircles, updateStationaryTracking, selectBestCircle,              *)
(* detectTapsFromMovement and clusterTaps; and the camera engine           *)
(* (lib/cameraEngine.js): update, findActiveTap, applySpringPhysics,       *)
(* clampPosition, reset and generateKeyframes.                             *)
(*                                                                         *)
(* Units.  Candidate and frame coordinates are fixed-point numbers in      *)
(* units of 1/SubPx pixel (the code has floating-point centroids); tap     *)
(* coordinates are whole pixels (the code rounds them).  Times are in      *)
(* centiseconds, exact (the code accumulates 0.1 in floating point).       *)
(* Scores are exact integers: the code's score times ScoreScale.           *)
(***************************************************************************)
EXTENDS Integers, Sequences, FiniteSets, TLC

VARIABLES
    cv,                    \* module-level cv: TRUE once OpenCV is loaded
    calibratedTargetPos,   \* module-level calibration hint, or Null
    calibratedExcludePos,  \* module-level calibration hint, or Null
    pc,                    \* position of the detection pass
    duration,              \* video.duration
    currentTime,           \* detectCircles: currentTime
    frameIndex,            \* detectCircles: frameIndex
    history,               \* detectCircles: history
    localStationaryMap,    \* detectCircles: localStationaryMap: grid key -> entry
    lastValidPosition,     \* detectCircles: lastValidPosition
    candidates,            \* detectCircles: candidates of the last frame
    circle,                \* detectCircles: circle selected in the last frame
    excludeAtSelect,       \* calibratedExcludePos as read by the last selection
    frameData,             \* detectCircles: frameData
    progress,              \* the values passed to onProgress, in order
    i,                     \* detectTapsFromMovement: loop index
    pauseStart,            \* detectTapsFromMovement: pauseStart
    pausePosition,         \* detectTapsFromMovement: pausePosition
    taps,                  \* detectTapsFromMovement: taps / clusterTaps input
    ci,                    \* clusterTaps: loop index
    clusters,              \* clusterTaps: clusters
    currentCluster,        \* clusterTaps: currentCluster
    clusteredTaps,         \* the list clusterTaps returns
    firstPass,             \* input and result of the previous clusterTaps pass, if any
    camera,                \* the preview's CameraEngine (cameraEngineRef.current)
    exportCamera,          \* the CameraEngine an export constructs for itself
    tapEvents,             \* the tap list handed to update
    zoomLevel,             \* the targetZoomLevel handed to update
    cpc,                   \* position of the camera session
    time,                  \* generateKeyframes: time; exportFast: frameIdx / fps
    genDuration,           \* generateKeyframes: duration
    keyframes,             \* generateKeyframes: keyframes
    videoTime              \* video.currentTime of the preview's video element

calVars  == <<cv, calibratedTargetPos, calibratedExcludePos>>
loopVars == <<duration, currentTime, frameIndex, history, localStationaryMap,
              lastValidPosition, candidates, circle, excludeAtSelect>>
tapVars  == <<i, pauseStart, pausePosition, taps>>
cluVars  == <<ci, clusters, currentCluster, clusteredTaps>>
camVars  == <<camera, exportCamera, tapEvents, zoomLevel, cpc, time, genDuration,
              keyframes, videoTime>>
vars == <<calVars, pc, loopVars, frameData, progress, tapVars, cluVars, firstPass,
          camVars>>

-----------------------------------------------------------------------------
(* Bounds of the model *)

SubPx == 2             \* fixed-point resolution: sub-pixel units per pixel
MaxTrackLen == 6       \* longest generic per-frame track
MaxTapListLen == 3     \* longest generic tap list given to clusterTaps

(* Program constants *)

movementThreshold == 15
minPauseFrames == 2
ClusterDist == 80      \* clusterTaps(taps, 80, 0.5): distThreshold, px
ClusterTime == 50      \* clusterTaps(taps, 80, 0.5): timeThreshold, cs
FrameInterval == 10    \* 1 / fps with fps = 10, in cs
NoIndex == -1          \* pauseStart = null

Null == [null |-> TRUE]

Px(n) == n * SubPx
Pos(px, py) == [x |-> px, y |-> py]
Sq(n) == n * n
Dist2(a, b) == Sq(a.x - b.x) + Sq(a.y - b.y)

\* Math.round on a fixed-point value: the nearest whole pixel, halves upwards
RoundHalfDown(v) == (2 * v + SubPx - 1) \div (2 * SubPx)
Round(v) == (2 * v + SubPx) \div (2 * SubPx)

RECURSIVE SeqsUpTo(_, _)
SeqsUpTo(S, n) ==
    IF n = 0 THEN {<<>>}
    ELSE LET shorter == SeqsUpTo(S, n - 1) IN
         shorter \cup {Append(s, e) : s \in {t \in shorter : Len(t) = n - 1}, e \in S}

-----------------------------------------------------------------------------
(* Movement tracking: calculateVelocity, predictNextPosition, the stationary *)
(* map.  A candidate is a record [x, y, pixelCount]; the fields radius,      *)
(* brightness and greyScore are only copied to the debug data.               *)

HISTORY_LENGTH == 10
STATIONARY_THRESHOLD == 5
STATIONARY_GRID_SIZE == 50
DecayFrames == 20            \* frameIndex - entry.lastSeen > 20
ExcludeSkipDist == 60        \* distToExclude < 60: hard skip
ExcludeNearDist == 120       \* distToExclude < 120: score *= 0.2
MinVelocity == 5             \* velocity.magnitude > 5
TargetDist == 100            \* distToTarget < 100: score *= 1.5

\* twice the velocity: recent[2] - recent[0] (the code halves it)
Velocity2(h) ==
    IF Len(h) < 3 THEN Pos(0, 0)
    ELSE Pos(h[Len(h)].x - h[Len(h) - 2].x, h[Len(h)].y - h[Len(h) - 2].y)

\* twice the predicted position: 2 * last + 2 * velocity; Null below 2 samples
Predicted2(h) ==
    IF Len(h) < 2 THEN Null
    ELSE Pos(2 * h[Len(h)].x + Velocity2(h).x, 2 * h[Len(h)].y + Velocity2(h).y)

\* getStationaryKey: the grid cell of a position
getStationaryKey(c) ==
    <<c.x \div Px(STATIONARY_GRID_SIZE), c.y \div Px(STATIONARY_GRID_SIZE)>>

HasKey(map, key) == key \in DOMAIN map
MapSet(map, key, entry) == [k \in (DOMAIN map) \cup {key} |-> IF k = key THEN entry ELSE map[k]]

isInStationaryZone(c, map) ==
    /\ HasKey(map, getStationaryKey(c))
    /\ map[getStationaryKey(c)].frameCount >= STATIONARY_THRESHOLD

\* the loop body without the distance test: an existing entry always counts
MarkCircleAnyDistance(map, c, f) ==
    LET key == getStationaryKey(c)
    IN  IF HasKey(map, key)
        THEN MapSet(map, key, [map[key] EXCEPT !.frameCount = @ + 1, !.lastSeen = f])
        ELSE MapSet(map, key, [x |-> c.x, y |-> c.y, frameCount |-> 1, lastSeen |-> f])
\* the loop body of updateStationaryTracking for one circle
MarkCircle(map, c, f) ==
    LET key == getStationaryKey(c)
        fresh == [x |-> c.x, y |-> c.y, frameCount |-> 1, lastSeen |-> f]
    IN  IF HasKey(map, key)
        THEN IF Dist2(c, map[key]) < Sq(Px(STATIONARY_GRID_SIZE))
             THEN MapSet(map, key, [map[key] EXCEPT !.frameCount = @ + 1,
                                                     !.lastSeen = f])
             ELSE MapSet(map, key, fresh)
        ELSE MapSet(map, key, fresh)

RECURSIVE MarkAll(_, _, _, _)
MarkAll(map, circles, k, f) ==
    IF k > Len(circles) THEN map
    ELSE MarkAll(MarkCircle(map, circles[k], f), circles, k + 1, f)

\* the decay loop: entries not seen for more than 20 frames are deleted
\* the decay loop with >= in place of >
DecayInclusive(map, f) ==
    [k \in {q \in DOMAIN map : ~(f - map[q].lastSeen >= DecayFrames)} |-> map[k]]
Decay(map, f) ==
    [k \in {q \in DOMAIN map : ~(f - map[q].lastSeen > DecayFrames)} |-> map[k]]

updateStationaryTracking(circles, f, map) == Decay(MarkAll(map, circles, 1, f), f)

-----------------------------------------------------------------------------
(* selectBestCircle.  A candidate is either hard-skipped (continue) or      *)
(* scored; a score is the code's score times 10^5: each of the five factors *)
(* is kept in tenths (0.1 -> 1, 1 -> 10, 3 -> 30).                          *)

\* STATIONARY REJECTION: frameCount >= STATIONARY_THRESHOLD * 2
StationarySkipNever(c, map) == FALSE
StationarySkip(c, map) ==
    /\ isInStationaryZone(c, map)
    /\ map[getStationaryKey(c)].frameCount >= STATIONARY_THRESHOLD * 2

StationaryFactor(c, map) == IF isInStationaryZone(c, map) THEN 1 ELSE 10

\* CALIBRATION EXCLUSION: distToExclude < 60
ExcludeSkipNever(c, excl) == FALSE
ExcludeSkip(c, excl) ==
    excl # Null /\ Dist2(c, excl) < Sq(Px(ExcludeSkipDist))

ExcludeFactor(c, excl) ==
    IF excl # Null /\ Dist2(c, excl) < Sq(Px(ExcludeNearDist)) THEN 2 ELSE 10

\* TRAJECTORY CONSISTENCY: predicted && velocity.magnitude > 5; distances to
\* the prediction are compared in doubled coordinates
TrajectoryActive(h) ==
    /\ Predicted2(h) # Null
    /\ Sq(Velocity2(h).x) + Sq(Velocity2(h).y) > Sq(2 * Px(MinVelocity))

DistToPredicted2(c, h) == Dist2(Pos(2 * c.x, 2 * c.y), Predicted2(h))

TrajectorySkip(c, h, map) ==
    /\ TrajectoryActive(h)
    /\ DistToPredicted2(c, h) > Sq(2 * Px(200))
    /\ isInStationaryZone(c, map)

TrajectoryFactor(c, h) ==
    IF ~TrajectoryActive(h) THEN 10
    ELSE IF DistToPredicted2(c, h) < Sq(2 * Px(50)) THEN 30
    ELSE IF DistToPredicted2(c, h) < Sq(2 * Px(100)) THEN 15
    ELSE IF DistToPredicted2(c, h) > Sq(2 * Px(200)) THEN 3
    ELSE 10

\* TRACKING CONTINUITY
ContinuitySkip(c, lastPosition, map) ==
    /\ lastPosition # Null
    /\ Dist2(c, lastPosition) > Sq(Px(250))
    /\ isInStationaryZone(c, map)

ContinuityFactor(c, lastPosition) ==
    IF lastPosition = Null THEN 10
    ELSE IF Dist2(c, lastPosition) < Sq(Px(60)) THEN 20
    ELSE IF Dist2(c, lastPosition) < Sq(Px(120)) THEN 12
    ELSE 10

\* CALIBRATION TARGET BONUS
TargetFactor(c, target) ==
    IF target # Null /\ Dist2(c, target) < Sq(Px(TargetDist)) THEN 15 ELSE 10

\* one of the four continue statements is reached
Skipped(c, lastPosition, h, map, excl) ==
    \/ StationarySkip(c, map)
    \/ ExcludeSkip(c, excl)
    \/ TrajectorySkip(c, h, map)
    \/ ContinuitySkip(c, lastPosition, map)

Score(c, lastPosition, h, map, target, excl) ==
    c.pixelCount * StationaryFactor(c, map) * ExcludeFactor(c, excl)
        * TrajectoryFactor(c, h) * ContinuityFactor(c, lastPosition)
        * TargetFactor(c, target)

\* the loop with >= in place of >: the last of the candidates with the
\* highest score
RECURSIVE BestFromLast(_, _, _, _, _, _, _, _, _)
BestFromLast(cands, k, bestCircle, bestScore, lastPosition, h, map, target, excl) ==
    IF k > Len(cands) THEN bestCircle
    ELSE LET c == cands[k]
             score == Score(c, lastPosition, h, map, target, excl)
         IN  IF ~Skipped(c, lastPosition, h, map, excl) /\ score >= bestScore
             THEN BestFromLast(cands, k + 1, c, score, lastPosition, h, map,
                               target, excl)
             ELSE BestFromLast(cands, k + 1, bestCircle, bestScore, lastPosition,
                               h, map, target, excl)

\* the for loop of selectBestCircle from candidate k on, with the best so far
RECURSIVE BestFrom(_, _, _, _, _, _, _, _, _)
BestFrom(cands, k, bestCircle, bestScore, lastPosition, h, map, target, excl) ==
    IF k > Len(cands) THEN bestCircle
    ELSE LET c == cands[k]
             score == Score(c, lastPosition, h, map, target, excl)
         IN  IF ~Skipped(c, lastPosition, h, map, excl) /\ score > bestScore
             THEN BestFrom(cands, k + 1, c, score, lastPosition, h, map,
                           target, excl)
             ELSE BestFrom(cands, k + 1, bestCircle, bestScore, lastPosition, h,
                           map, target, excl)

selectBestCircle(cands, lastPosition, h, map, target, excl) ==
    IF Len(cands) = 0 THEN Null
    ELSE BestFrom(cands, 1, Null, 0, lastPosition, h, map, target, excl)

-----------------------------------------------------------------------------
(* detectCircles: the frame loop *)

\* history.push(...) without the shift
PushHistoryNoShift(h, c, f) == Append(h, [x |-> c.x, y |-> c.y, frame |-> f])
\* history.push(...); if (history.length > HISTORY_LENGTH) history.shift()
PushHistory(h, c, f) ==
    LET pushed == Append(h, [x |-> c.x, y |-> c.y, frame |-> f])
    IN  IF Len(pushed) > HISTORY_LENGTH THEN Tail(pushed) ELSE pushed

\* Math.floor(duration * fps), duration in centiseconds
TotalFrames(d) == d \div FrameInterval

\* the value (frameIndex / totalFrames) * 60 as a fraction; den = 0: Infinity
FrameProgress(f, d) == [num |-> f * 60, den |-> TotalFrames(d)]

\* initOpenCV resolves
InitOpenCV ==
    /\ ~cv
    /\ cv' = TRUE
    /\ UNCHANGED <<calibratedTargetPos, calibratedExcludePos, pc, loopVars,
                   frameData, progress, tapVars, cluVars, firstPass, camVars>>

\* setCalibration, from a UI handler: not while synchronous code of the pass runs
setCalibration(targetPos, excludePos) ==
    /\ pc \in {"idle", "seeking", "done"}
    /\ calibratedTargetPos' = targetPos
    /\ calibratedExcludePos' = excludePos
    /\ UNCHANGED <<cv, pc, loopVars, frameData, progress, tapVars, cluVars, firstPass, camVars>>

\* runDetection returns at once unless OpenCV is ready
OpenCVReadyAlways == TRUE
OpenCVReady == cv

\* runDetection calls detectCircles: the throw when cv is not set, the locals,
\* and the first test of the while loop
RunDetection(d) ==
    /\ pc = "idle"
    /\ OpenCVReady
    /\ duration' = d
    /\ currentTime' = 0
    /\ frameIndex' = 0
    /\ history' = <<>>
    /\ localStationaryMap' = <<>>
    /\ lastValidPosition' = Null
    /\ frameData' = <<>>
    /\ progress' = <<>>
    /\ pc' = IF ~cv THEN "error"
             ELSE IF 0 < d THEN "seeking" ELSE "synthStart"
    /\ UNCHANGED <<calVars, candidates, circle, excludeAtSelect, tapVars, cluVars,
                   firstPass, camVars>>

\* the iteration with the selection made before the stationary update
ProcessFrameStaleMap(cands) ==
    /\ pc = "seeking"
    /\ LET map == updateStationaryTracking(cands, frameIndex, localStationaryMap)
           best == selectBestCircle(cands, lastValidPosition, history,
                                    localStationaryMap,
                                    calibratedTargetPos, calibratedExcludePos)
       IN  /\ candidates' = cands
           /\ localStationaryMap' = map
           /\ circle' = best
           /\ excludeAtSelect' = calibratedExcludePos
           /\ frameData' = Append(frameData,
                              [time |-> currentTime,
                               pos |-> IF best # Null THEN Pos(best.x, best.y) ELSE Null])
           /\ history' = IF best # Null THEN PushHistory(history, best, frameIndex)
                         ELSE history
           /\ lastValidPosition' = IF best # Null THEN Pos(best.x, best.y)
                                   ELSE lastValidPosition
    /\ frameIndex' = frameIndex + 1
    /\ progress' = Append(progress, FrameProgress(frameIndex + 1, duration))
    /\ currentTime' = currentTime + FrameInterval
    /\ pc' = IF currentTime + FrameInterval < duration THEN "seeking" ELSE "synthStart"
    /\ UNCHANGED <<calVars, duration, tapVars, cluVars, firstPass, camVars>>

\* the seek of video.currentTime = currentTime resolves: one iteration of the
\* while loop, from drawImage to the loop test, on the frame's candidates
ProcessFrame(cands) ==
    /\ pc = "seeking"
    /\ LET map == updateStationaryTracking(cands, frameIndex, localStationaryMap)
           best == selectBestCircle(cands, lastValidPosition, history, map,
                                    calibratedTargetPos, calibratedExcludePos)
       IN  /\ candidates' = cands
           /\ localStationaryMap' = map
           /\ circle' = best
           /\ excludeAtSelect' = calibratedExcludePos
           /\ frameData' = Append(frameData,
                              [time |-> currentTime,
                               pos |-> IF best # Null THEN Pos(best.x, best.y) ELSE Null])
           /\ history' = IF best # Null THEN PushHistory(history, best, frameIndex)
                         ELSE history
           /\ lastValidPosition' = IF best # Null THEN Pos(best.x, best.y)
                                   ELSE lastValidPosition
    /\ frameIndex' = frameIndex + 1
    /\ progress' = Append(progress, FrameProgress(frameIndex + 1, duration))
    /\ currentTime' = currentTime + FrameInterval
    /\ pc' = IF currentTime + FrameInterval < duration THEN "seeking" ELSE "synthStart"
    /\ UNCHANGED <<calVars, duration, tapVars, cluVars, firstPass, camVars>>

-----------------------------------------------------------------------------
(* detectTapsFromMovement *)

\* frameData[k] of the code (0-based)
Frame(k) == frameData[k + 1]

\* taps.push({time: frameData[pauseStart].time, x: round, y: round})
PauseTap == [time |-> Frame(pauseStart).time,
             x |-> Round(pausePosition.x),
             y |-> Round(pausePosition.y)]

EmitTapFront(list, tap) == <<tap>> \o list
EmitTap(list, tap) == Append(list, tap)

\* the condition of the three emitting ifs, for an end index e
LongEnoughAlways(e) == pauseStart # NoIndex
LongEnough(e) == pauseStart # NoIndex /\ (e - pauseStart) >= minPauseFrames

Moved2(curr, prev) == Dist2(curr.pos, prev.pos)

TapStart ==
    /\ pc = "synthStart"
    /\ i' = 1
    /\ pauseStart' = NoIndex
    /\ pausePosition' = Null
    /\ taps' = <<>>
    /\ pc' = "synth"
    /\ UNCHANGED <<calVars, loopVars, frameData, progress, cluVars, firstPass, camVars>>

\* the branch for a frame with no position (curr or prev lost)
LostBranchNoEmit ==
    /\ taps' = taps
    /\ pauseStart' = NoIndex
    /\ UNCHANGED pausePosition
LostBranch ==
    /\ taps' = IF LongEnough(i) THEN EmitTap(taps, PauseTap) ELSE taps
    /\ pauseStart' = NoIndex
    /\ UNCHANGED pausePosition

\* one iteration of the for loop
TapLoopStep ==
    /\ pc = "synth"
    /\ i < Len(frameData)
    /\ LET prev == Frame(i - 1)
           curr == Frame(i)
       IN  IF curr.pos = Null \/ prev.pos = Null
           THEN LostBranch
           ELSE IF Moved2(curr, prev) < Sq(Px(movementThreshold))
           THEN /\ pauseStart' = IF pauseStart = NoIndex THEN i ELSE pauseStart
                /\ pausePosition' = IF pauseStart = NoIndex THEN curr.pos
                                    ELSE pausePosition
                /\ UNCHANGED taps
           ELSE /\ taps' = IF LongEnough(i) THEN EmitTap(taps, PauseTap) ELSE taps
                /\ pauseStart' = NoIndex
                /\ UNCHANGED pausePosition
    /\ i' = i + 1
    /\ UNCHANGED <<calVars, pc, loopVars, frameData, progress, cluVars, firstPass, camVars>>

\* loop exit: the final flush, return taps; detectCircles then reports 80
TapLoopExit ==
    /\ pc = "synth"
    /\ i >= Len(frameData)
    /\ taps' = IF LongEnough(Len(frameData)) THEN EmitTap(taps, PauseTap) ELSE taps
    /\ progress' = Append(progress, [num |-> 80, den |-> 1])
    /\ pc' = "clusterStart"
    /\ UNCHANGED <<calVars, loopVars, frameData, i, pauseStart, pausePosition,
                   cluVars, firstPass, camVars>>

-----------------------------------------------------------------------------
(* clusterTaps(taps, 80, 0.5) *)

\* dist < distThreshold && timeDiff < timeThreshold
SameClusterNoTime(tap, lastTap) == Dist2(tap, lastTap) < Sq(ClusterDist)
SameCluster(tap, lastTap) ==
    /\ Dist2(tap, lastTap) < Sq(ClusterDist)
    /\ tap.time - lastTap.time < ClusterTime

\* the member of the current cluster a new tap is compared with
CompareWithFirst(cluster) == cluster[1]
CompareWith(cluster) == cluster[Len(cluster)]

\* clusters.map(cluster => ({time, x, y of cluster[0], type: 'tap'}))
ClusterEvent(cluster) ==
    [time |-> cluster[1].time, x |-> cluster[1].x, y |-> cluster[1].y,
     type |-> "tap"]

\* if (taps.length === 0) return []; clusters = []; currentCluster = [taps[0]]
ClusterStart ==
    /\ pc = "clusterStart"
    /\ IF Len(taps) = 0
       THEN /\ clusteredTaps' = <<>>
            /\ progress' = Append(progress, [num |-> 100, den |-> 1])
            /\ pc' = "done"
            /\ UNCHANGED <<ci, clusters, currentCluster>>
       ELSE /\ clusters' = <<>>
            /\ currentCluster' = <<taps[1]>>
            /\ ci' = 1
            /\ pc' = "cluster"
            /\ UNCHANGED <<clusteredTaps, progress>>
    /\ UNCHANGED <<calVars, loopVars, frameData, tapVars, firstPass, camVars>>

ClusterLoopStep ==
    /\ pc = "cluster"
    /\ ci < Len(taps)
    /\ LET tap == taps[ci + 1]
           lastTap == CompareWith(currentCluster)
       IN  IF SameCluster(tap, lastTap)
           THEN /\ currentCluster' = Append(currentCluster, tap)
                /\ UNCHANGED clusters
           ELSE /\ clusters' = Append(clusters, currentCluster)
                /\ currentCluster' = <<tap>>
    /\ ci' = ci + 1
    /\ UNCHANGED <<calVars, pc, loopVars, frameData, progress, tapVars,
                   clusteredTaps, firstPass, camVars>>

\* clusters.push(currentCluster); return clusters.map(...); then onProgress(100)
ClusterExit ==
    /\ pc = "cluster"
    /\ ci >= Len(taps)
    /\ LET all == Append(clusters, currentCluster)
       IN  /\ clusters' = all
           /\ clusteredTaps' = [k \in 1..Len(all) |-> ClusterEvent(all[k])]
    /\ progress' = Append(progress, [num |-> 100, den |-> 1])
    /\ pc' = "done"
    /\ UNCHANGED <<calVars, loopVars, frameData, tapVars, ci, currentCluster,
                   firstPass, camVars>>

\* the returned list is clustered once more (re-clustering a clustered list)
Recluster ==
    /\ pc = "done"
    /\ firstPass = Null
    /\ firstPass' = [input |-> taps, list |-> clusteredTaps]
    /\ taps' = clusteredTaps
    /\ pc' = "clusterStart"
    /\ UNCHANGED <<calVars, loopVars, frameData, progress, i, pauseStart,
                   pausePosition, cluVars, camVars>>

-----------------------------------------------------------------------------
(* Initial values shared by the specifications *)

LoopIdle ==
    /\ duration = 0
    /\ currentTime = 0
    /\ frameIndex = 0
    /\ history = <<>>
    /\ localStationaryMap = <<>>
    /\ lastValidPosition = Null
    /\ candidates = <<>>
    /\ circle = Null
    /\ excludeAtSelect = Null

TapIdle ==
    /\ i = 1
    /\ pauseStart = NoIndex
    /\ pausePosition = Null
    /\ taps = <<>>

ClusterIdle ==
    /\ ci = 1
    /\ clusters = <<>>
    /\ currentCluster = <<>>
    /\ clusteredTaps = <<>>

CalIdle ==
    /\ cv = FALSE
    /\ calibratedTargetPos = Null
    /\ calibratedExcludePos = Null

\* no camera engine exists (cameraEngineRef.current is null) and no export runs
CamIdle ==
    /\ camera = Null
    /\ exportCamera = Null
    /\ tapEvents = <<>>
    /\ zoomLevel = 0
    /\ cpc = "idle"
    /\ time = 0
    /\ genDuration = 0
    /\ keyframes = <<>>
    /\ videoTime = 0

-----------------------------------------------------------------------------
(* SpecTaps: detectTapsFromMovement followed by clusterTaps, on every       *)
(* per-frame track of at most MaxTrackLen frames, and on the 30-frame track *)
(* of the end-to-end scenario.  Frame k has time k * FrameInterval.         *)

TrackA == Pos(Px(100), Px(100))
TrackB == Pos(Px(109), Px(112))          \* exactly 15px from TrackA
TrackC == Pos(Px(104) + 1, Px(106) + 1)  \* off the pixel grid, near A and B
TrackD == Pos(Px(300), Px(40) + 1)       \* far from the others
TrackSyms == {TrackA, TrackB, TrackC, TrackD, Null}

TrackOf(s) == [k \in 1..Len(s) |-> [time |-> (k - 1) * FrameInterval, pos |-> s[k]]]

E2EPositions ==
    [k \in 1..30 |->
        IF k <= 5 THEN Pos(Px(50 * k), Px(50 * k))
        ELSE IF k <= 8 THEN Pos(Px(250), Px(250))
        ELSE Null]
E2ETrack == TrackOf(E2EPositions)

Tracks == {TrackOf(s) : s \in SeqsUpTo(TrackSyms, MaxTrackLen)} \cup {E2ETrack}

InitTaps ==
    /\ cv = TRUE /\ calibratedTargetPos = Null /\ calibratedExcludePos = Null
    /\ LoopIdle
    /\ TapIdle
    /\ ClusterIdle
    /\ frameData \in Tracks
    /\ progress = <<>>
    /\ firstPass = Null
    /\ CamIdle
    /\ pc = "synthStart"

NextTaps ==
    \/ TapStart
    \/ TapLoopStep
    \/ TapLoopExit
    \/ ClusterStart
    \/ ClusterLoopStep
    \/ ClusterExit

SpecTaps == InitTaps /\ [][NextTaps]_vars

-----------------------------------------------------------------------------
(* SpecCluster: clusterTaps on every time-ordered tap list of at most       *)
(* MaxTapListLen taps, then once more on its own result.                    *)

ClusterTimes == {0, 10, 20, 30, 60}
ClusterPlaces == {Pos(100, 100), Pos(170, 100), Pos(80, 100)}
ClusterInputs == {[time |-> t, x |-> p.x, y |-> p.y] : t \in ClusterTimes, p \in ClusterPlaces}

TimeOrdered(list) ==
    \A k \in 1..(Len(list) - 1) : list[k].time <= list[k + 1].time

MergeScenario == << [time |-> 50, x |-> 250, y |-> 250],
                    [time |-> 65, x |-> 260, y |-> 255] >>

TapLists ==
    {l \in SeqsUpTo(ClusterInputs, MaxTapListLen) : TimeOrdered(l)} \cup {MergeScenario}

InitCluster ==
    /\ cv = TRUE /\ calibratedTargetPos = Null /\ calibratedExcludePos = Null
    /\ LoopIdle
    /\ i = 1
    /\ pauseStart = NoIndex
    /\ pausePosition = Null
    /\ taps \in TapLists
    /\ ClusterIdle
    /\ frameData = <<>>
    /\ progress = <<>>
    /\ firstPass = Null
    /\ CamIdle
    /\ pc = "clusterStart"

NextCluster ==
    \/ ClusterStart
    \/ ClusterLoopStep
    \/ ClusterExit
    \/ Recluster

SpecCluster == InitCluster /\ [][NextCluster]_vars

-----------------------------------------------------------------------------
(* Properties of detectTapsFromMovement and clusterTaps *)

\* the whole pixel nearest to a fixed-point value, a half going upwards
NearestPixel(v) ==
    CHOOSE p \in ((v \div SubPx) - 1)..((v \div SubPx) + 1) :
        2 * p * SubPx - SubPx <= 2 * v /\ 2 * v < 2 * p * SubPx + SubPx

\* frame k (0-based, k >= 1) has a position, as has its predecessor, and the
\* movement between the two is below 15px
Calm(fd, k) ==
    /\ fd[k + 1].pos # Null
    /\ fd[k].pos # Null
    /\ Dist2(fd[k + 1].pos, fd[k].pos) < Sq(Px(15))

\* k is the first frame of a maximal run of calm frames
RunStart(fd, k) == Calm(fd, k) /\ (k = 1 \/ ~Calm(fd, k - 1))
\* the number of frames of the run of calm frames that starts at k
RunLength(fd, k) ==
    Cardinality({e \in k..(Len(fd) - 1) : \A m \in k..e : Calm(fd, m)})

RECURSIVE RunTaps(_, _)
RunTaps(fd, k) ==
    IF k >= Len(fd) THEN <<>>
    ELSE (IF RunStart(fd, k) /\ RunLength(fd, k) >= 2
          THEN << [time |-> fd[k + 1].time,
                   x |-> NearestPixel(fd[k + 1].pos.x),
                   y |-> NearestPixel(fd[k + 1].pos.y)] >>
          ELSE <<>>) \o RunTaps(fd, k + 1)

TapsReturned == pc \in {"clusterStart", "cluster", "done"} /\ firstPass = Null

\* C1: detectTapsFromMovement returns, in track order, exactly one tap for
\* every maximal run of calm frames (movement from the previous frame below
\* 15px) that spans at least 2 frames, and nothing else; the tap carries the
\* time and the rounded position of the run's first frame.  On the 30-frame
\* end-to-end track the result is the single tap (0.5s, 250, 250).
C1_OneTapPerPause ==
    TapsReturned =>
        /\ taps = RunTaps(frameData, 1)
        /\ frameData = E2ETrack => taps = << [time |-> 50, x |-> 250, y |-> 250] >>

\* a track with a run of one calm frame (no tap), a run of at least two whose
\* first frame is off the pixel grid, and the tap for it
C1_Witness ==
    /\ TapsReturned
    /\ taps # <<>>
    /\ \E k \in 1..(Len(frameData) - 1) :
          RunStart(frameData, k) /\ RunLength(frameData, k) = 1
    /\ \E k \in 1..(Len(frameData) - 1) :
          /\ RunStart(frameData, k) /\ RunLength(frameData, k) >= 2
          /\ frameData[k + 1].pos = TrackC

\* the tap of the pause that is open in the current state
OpenPauseTap ==
    [time |-> Frame(pauseStart).time,
     x |-> NearestPixel(pausePosition.x),
     y |-> NearestPixel(pausePosition.y)]

LostFrameNext ==
    /\ pc = "synth" /\ i < Len(frameData)
    /\ (Frame(i).pos = Null \/ Frame(i - 1).pos = Null)

\* C2: a frame with no position closes the open pause, which emits its tap
\* iff it has lasted at least 2 frames; no pause continues across a lost
\* frame; a pause open at the end of the track is flushed under the same
\* rule; whenever a pause of at least 2 frames ends, its tap is appended.
C2_LostFrameClosesPause ==
    /\ [](pc = "synth" /\ pauseStart # NoIndex =>
            \A k \in (pauseStart - 1)..(i - 1) : Frame(k).pos # Null)
    /\ [][LostFrameNext =>
            /\ pauseStart' = NoIndex
            /\ taps' = IF pauseStart # NoIndex /\ i - pauseStart >= 2
                       THEN Append(taps, OpenPauseTap) ELSE taps]_vars
    /\ [][pc = "synth" /\ pauseStart # NoIndex
            /\ (pauseStart' = NoIndex \/ pc' # "synth") =>
            taps' = IF (IF pc' = "synth" THEN i ELSE Len(frameData)) - pauseStart >= 2
                    THEN Append(taps, OpenPauseTap) ELSE taps]_vars

\* a lost frame has just closed a pause of at least 2 frames and its tap is
\* the last one emitted
C2_Witness ==
    /\ pc = "synth"
    /\ i >= 4
    /\ Frame(i - 1).pos = Null
    /\ pauseStart = NoIndex
    /\ taps # <<>>
    /\ \E s \in 1..(i - 3) :
          /\ \A k \in s..(i - 2) : Calm(frameData, k)
          /\ taps[Len(taps)].time = Frame(s).time

\* C3: the list returned by clusterTaps(detectTapsFromMovement(track), 80, 0.5)
\* is non-decreasing in time (frame times are strictly increasing).
C3_OutputTimeOrdered ==
    pc = "done" =>
        \A k \in 1..(Len(clusteredTaps) - 1) :
            clusteredTaps[k].time <= clusteredTaps[k + 1].time

C3_Witness ==
    /\ pc = "done"
    /\ Len(clusteredTaps) >= 2
    /\ \A k \in 1..(Len(frameData) - 1) : frameData[k].time < frameData[k + 1].time

Core(tap) == [time |-> tap.time, x |-> tap.x, y |-> tap.y]
Cores(list) == [k \in 1..Len(list) |-> Core(list[k])]

\* C4 as stated: clustering the clustered list again returns the same events
\* in the same order with the same time, x and y, for every time-ordered list.
C4_ClusterIdempotent ==
    pc = "done" /\ firstPass # Null =>
        Cores(clusteredTaps) = Cores(firstPass.list)

\* consecutive taps are at least 0.3s apart, as in every list a detection
\* pass clusters (3 frames at 10 fps between the starts of two pauses)
Spaced(list) ==
    \A k \in 1..(Len(list) - 1) : list[k + 1].time - list[k].time >= 30

\* C4 amended: clustering is idempotent on every time-ordered list whose
\* consecutive taps are at least 0.3s apart.
C4_ClusterIdempotentSpaced ==
    pc = "done" /\ firstPass # Null /\ Spaced(firstPass.input) =>
        Cores(clusteredTaps) = Cores(firstPass.list)

\* a spaced list of three taps, the second merged into the first, the third
\* within 80px of the first: clustered to two events and clustered again
C4_Witness ==
    /\ pc = "done" /\ firstPass # Null
    /\ Spaced(firstPass.input)
    /\ Len(firstPass.input) = 3
    /\ Len(firstPass.list) = 2
    /\ Sq(firstPass.list[1].x - firstPass.list[2].x)
          + Sq(firstPass.list[1].y - firstPass.list[2].y) < 80 * 80
    /\ Len(clusteredTaps) = 2

\* an event is near its predecessor: closer than 80px and less than 0.5s later
NearPredecessor(list, k) ==
    /\ Sq(list[k].x - list[k - 1].x) + Sq(list[k].y - list[k - 1].y) < 80 * 80
    /\ list[k].time - list[k - 1].time < 50

RECURSIVE KeptFrom(_, _)
KeptFrom(list, k) ==
    IF k > Len(list) THEN <<>>
    ELSE (IF k = 1 \/ ~NearPredecessor(list, k)
          THEN << [time |-> list[k].time, x |-> list[k].x, y |-> list[k].y,
                   type |-> "tap"] >>
          ELSE <<>>) \o KeptFrom(list, k + 1)

\* C5: on a time-ordered list clusterTaps emits exactly the events that are
\* first or not near their predecessor in the input, each with its own time,
\* x and y (the first member of its cluster), one per cluster; the empty list
\* gives the empty list and the merge scenario gives its first event.
C5_ClusterGreedy ==
    pc = "done" /\ firstPass = Null =>
        /\ clusteredTaps = KeptFrom(taps, 1)
        /\ Len(clusteredTaps) = Len(clusters)
        /\ taps = <<>> => clusteredTaps = <<>>
        /\ taps = MergeScenario =>
              Cores(clusteredTaps) = << [time |-> 50, x |-> 250, y |-> 250] >>

\* three events: the second joins the first, the third is near the first
\* but not near the second and starts a cluster of its own
C5_Witness ==
    /\ pc = "done" /\ firstPass = Null
    /\ Len(taps) = 3
    /\ NearPredecessor(taps, 2)
    /\ ~NearPredecessor(taps, 3)
    /\ Sq(taps[3].x - taps[1].x) + Sq(taps[3].y - taps[1].y) < 80 * 80
    /\ taps[3].time - taps[1].time < 50
    /\ Len(clusteredTaps) = 2

-----------------------------------------------------------------------------
(* Spec: one detection pass, from runDetection to the returned tap list, on *)
(* videos of every duration up to MaxPassFrames frames (in steps of half a  *)
(* frame interval), each frame showing no candidate or one of two.          *)

MaxPassFrames == 6

Durations == {5 * k : k \in 0..(2 * MaxPassFrames - 1)}

PassCandA == [x |-> Px(100), y |-> Px(100), pixelCount |-> 40]
PassCandB == [x |-> Px(300) + 1, y |-> Px(420), pixelCount |-> 25]
PassCandLists == {<<>>, <<PassCandA>>, <<PassCandB>>}

Init ==
    /\ CalIdle
    /\ LoopIdle
    /\ TapIdle
    /\ ClusterIdle
    /\ frameData = <<>>
    /\ progress = <<>>
    /\ firstPass = Null
    /\ CamIdle
    /\ pc = "idle"

Next ==
    \/ InitOpenCV
    \/ \E d \in Durations : RunDetection(d)
    \/ \E c \in PassCandLists : ProcessFrame(c)
    \/ TapStart
    \/ TapLoopStep
    \/ TapLoopExit
    \/ ClusterStart
    \/ ClusterLoopStep
    \/ ClusterExit

Spec == Init /\ [][Next]_vars

-----------------------------------------------------------------------------
(* SpecSelect: the frame loop of a pass of MaxSelectFrames frames, with     *)
(* candidates around a marked menu position and setCalibration calls from   *)
(* the UI before the pass and between frames.                               *)

MaxSelectFrames == 3

ExcludeMark == Pos(Px(200), Px(200))
TargetMark == Pos(Px(400), Px(300))

CandInside == [x |-> Px(230), y |-> Px(240), pixelCount |-> 50]  \* 50px from the mark
CandEdge == [x |-> Px(236), y |-> Px(248), pixelCount |-> 30]    \* exactly 60px
CandFar == [x |-> Px(400), y |-> Px(320), pixelCount |-> 20]     \* 233px

SelectCandLists ==
    { <<CandInside>>, <<CandFar>>, <<CandInside, CandEdge>>,
      <<CandInside, CandFar>>, <<CandFar, CandEdge>> }

InitSelect ==
    /\ cv = TRUE /\ calibratedTargetPos = Null /\ calibratedExcludePos = Null
    /\ LoopIdle
    /\ TapIdle
    /\ ClusterIdle
    /\ frameData = <<>>
    /\ progress = <<>>
    /\ firstPass = Null
    /\ CamIdle
    /\ pc = "idle"

NextSelect ==
    \/ \E t \in {Null, TargetMark}, e \in {Null, ExcludeMark} : setCalibration(t, e)
    \/ RunDetection(FrameInterval * MaxSelectFrames)
    \/ \E c \in SelectCandLists : ProcessFrame(c)

SpecSelect == InitSelect /\ [][NextSelect]_vars

-----------------------------------------------------------------------------
(* SpecStationary: the frame loop of a pass of MaxStationaryFrames frames.  *)
(* Every frame shows a fixed candidate, always at the same position, and a  *)
(* second candidate that is at least 20px from where it was in the frame    *)
(* before.  No calibration is set.                                          *)

MaxStationaryFrames == 13

FixedCand == [x |-> Px(110), y |-> Px(110), pixelCount |-> 60]

MoverPlaces ==
    { Pos(Px(310), Px(110)),     \* 200px from the fixed candidate
      Pos(Px(610), Px(110)),     \* 300px further
      Pos(Px(145), Px(149)) }    \* in the fixed candidate's grid cell, 52px from it

MoverAt(p) == [x |-> p.x, y |-> p.y, pixelCount |-> 40]

\* the places among S the second candidate may take in the next frame
MoverNext(S) ==
    IF Len(candidates) < 2 THEN S
    ELSE {p \in S : Dist2(p, candidates[2]) >= Sq(Px(20))}

InitStationary == InitSelect

NextStationary ==
    \/ RunDetection(FrameInterval * MaxStationaryFrames)
    \/ \E p \in MoverNext(MoverPlaces) : ProcessFrame(<<FixedCand, MoverAt(p)>>)

SpecStationary == InitStationary /\ [][NextStationary]_vars

\* SpecApart: the same, with the second candidate never in the grid cell of
\* the fixed one
ApartPlaces == {p \in MoverPlaces : getStationaryKey(p) # getStationaryKey(FixedCand)}
                  \cup {Pos(Px(330), Px(110))}

NextApart ==
    \/ RunDetection(FrameInterval * MaxStationaryFrames)
    \/ \E p \in MoverNext(ApartPlaces) : ProcessFrame(<<FixedCand, MoverAt(p)>>)

SpecApart == InitStationary /\ [][NextApart]_vars

-----------------------------------------------------------------------------
(* Properties of the detection pass *)

\* the index of the frame processed last
LastFrame == frameIndex - 1
FrameDone == pc \in {"seeking", "synthStart"} /\ frameIndex >= 1

\* C6: with one candidate fixed at the same position in every frame and a
\* second one moving at least 20px per frame, the fixed candidate is not the
\* selected one in any frame after frame 10.
C6_FixedNeverSelected ==
    FrameDone /\ LastFrame > 10 => circle # FixedCand

\* C7: in the same setting, in every frame after frame 10 the moving
\* candidate (present in every frame here) is the one selected.
C7_MoverSelected ==
    FrameDone /\ LastFrame > 10 => circle = candidates[2]

\* C8: while an exclude position is set, the selected candidate is never
\* closer than 60px to it.
C8_ExcludedNeverSelected ==
    FrameDone /\ excludeAtSelect # Null /\ circle # Null =>
        ~(Sq(circle.x - excludeAtSelect.x) + Sq(circle.y - excludeAtSelect.y)
            < Sq(60 * SubPx))

\* the largest candidate of the frame is 50px from the mark, and the one
\* exactly 60px from it is selected in its place
C8_Witness ==
    /\ FrameDone
    /\ excludeAtSelect = ExcludeMark
    /\ candidates = <<CandInside, CandEdge>>
    /\ circle = CandEdge

\* C9: a pass over a zero-length video ends without an error and returns the
\* empty tap list (and empty debug data).
C9_ZeroLengthEmpty ==
    /\ duration = 0 => pc # "error"
    /\ pc = "done" /\ duration = 0 => clusteredTaps = <<>> /\ frameData = <<>>

C9_Witness ==
    pc = "done" /\ duration = 0 /\ progress = << [num |-> 80, den |-> 1],
                                                  [num |-> 100, den |-> 1] >>

\* a reported value lies in [0, 100]
IsPercentage(v) == v.den > 0 /\ 0 <= v.num /\ v.num <= 100 * v.den
\* v <= w for two reported values (den = 0 is Infinity)
NotAbove(v, w) ==
    IF w.den = 0 THEN TRUE
    ELSE IF v.den = 0 THEN FALSE
    ELSE v.num * w.den <= w.num * v.den

\* C10: the values passed to onProgress lie in [0, 100] and never decrease.
C10_ProgressMonotonic ==
    /\ \A k \in 1..Len(progress) : IsPercentage(progress[k])
    /\ \A k \in 1..(Len(progress) - 1) : NotAbove(progress[k], progress[k + 1])

-----------------------------------------------------------------------------
(* SpecSeek: the detection pass of Spec, where the seek of a sampled frame  *)
(* may fail.  detectCircles waits for the frame with                        *)
(*   await new Promise(resolve => { video.onseeked = resolve })             *)
(* and installs no error handler and no timeout.                            *)

\* the seek to currentTime fails: 'seeked' is never fired, the promise never
\* resolves and neither detectCircles nor runDetection's try/catch/finally
\* runs any further
FailSeek ==
    /\ pc = "seeking"
    /\ pc' = "stalled"
    /\ UNCHANGED <<calVars, loopVars, frameData, progress, tapVars, cluVars,
                   firstPass, camVars>>

NextSeek == Next \/ FailSeek

\* every step of the pass that can be taken is taken eventually (the event
\* loop runs every continuation that is ready)
SpecSeek == Init /\ [][NextSeek]_vars /\ WF_vars(NextSeek)

\* the frames sampled so far cover the whole duration
AllFramesSampled == Len(frameData) * FrameInterval >= duration

\* C11: a failed seek makes the pass end in a failure reported to the caller,
\* and no tap list computed from only part of the frames is ever returned.
C11_SeekFailureReported ==
    /\ (pc = "stalled") ~> (pc = "error")
    /\ [](pc = "done" => AllFramesSampled)

-----------------------------------------------------------------------------
(* The camera engine (lib/cameraEngine.js).                                 *)
(*                                                                         *)
(* Units.  Camera times are in ticks of 1/300 s, exact (1/30 s = 10 ticks, *)
(* 0.1 s = 30 ticks).  Positions and their velocities are fixed-point      *)
(* numbers in units of 1/CamSub pixel, zoom and its velocity in units of   *)
(* 1/ZoomSub; the code computes them in floating point.  A product with a  *)
(* decimal factor is truncated towards zero to the resolution.  Tap        *)
(* coordinates are whole pixels.                                           *)

CamSub == 100          \* position resolution: units per pixel
ZoomSub == 10000       \* zoom resolution: units per 1x

springStiffness == 8       \* 0.08, in hundredths
damping == 85              \* 0.85, in hundredths
zoomHoldDuration == 600    \* 2.0 s
clusterTimeout == 150      \* 0.5 s
lookAhead == 90            \* 0.3 s
lookBehind == 240          \* 0.8 s
CamFrameTicks == 10        \* 1 / fps with fps = 30

CamPx(n) == n * CamSub
\* a zoom given in tenths (18 is 1.8x)
Zoom(tenths) == (tenths * ZoomSub) \div 10

\* a / b truncated towards zero
TruncDiv(a, b) == IF a >= 0 THEN a \div b ELSE -((-a) \div b)
Max(a, b) == IF a >= b THEN a ELSE b
Min(a, b) == IF a <= b THEN a ELSE b

\* new CameraEngine(videoWidth, videoHeight), dimensions in pixels
CameraEngine(videoWidth, videoHeight) ==
    [videoWidth |-> CamPx(videoWidth), videoHeight |-> CamPx(videoHeight),
     x |-> CamPx(videoWidth) \div 2, y |-> CamPx(videoHeight) \div 2,
     targetX |-> CamPx(videoWidth) \div 2, targetY |-> CamPx(videoHeight) \div 2,
     zoom |-> Zoom(10), targetZoom |-> Zoom(10),
     velocityX |-> 0, velocityY |-> 0, velocityZoom |-> 0,
     lastUpdateTime |-> 0, lastTapTime |-> 0, recentTaps |-> <<>>]

\* tapEvents.find(...): the first element from index k on that satisfies the
\* upcoming test, or Null
RECURSIVE FindUpcoming(_, _, _)
FindUpcoming(events, k, now) ==
    IF k > Len(events) THEN Null
    ELSE IF events[k].time > now /\ events[k].time - now < lookAhead
         THEN events[k]
         ELSE FindUpcoming(events, k + 1, now)

\* the first element from index j on that satisfies the recent test, or Null
RECURSIVE FindRecentAscending(_, _, _)
FindRecentAscending(events, j, now) ==
    IF j > Len(events) THEN Null
    ELSE IF now - events[j].time < lookBehind /\ now >= events[j].time
         THEN events[j]
         ELSE FindRecentAscending(events, j + 1, now)

\* [...tapEvents].reverse().find(...): the last element up to index k that
\* satisfies the recent test, or Null (FindRecentFirst: without the reverse)
FindRecentFirst(events, k, now) == FindRecentAscending(events, 1, now)
RECURSIVE FindRecent(_, _, _)
FindRecent(events, k, now) ==
    IF k < 1 THEN Null
    ELSE IF now - events[k].time < lookBehind /\ now >= events[k].time
         THEN events[k]
         ELSE FindRecent(events, k - 1, now)

findActiveTap(now, events) ==
    LET upcomingTap == FindUpcoming(events, 1, now)
    IN  IF upcomingTap # Null THEN upcomingTap
        ELSE FindRecent(events, Len(events), now)

\* one axis of applySpringPhysics: <<velocity, value>> after the step; the
\* zoom axis has half the stiffness (divisor 2)
Spring(value, velocity, target, halve) ==
    LET force == TruncDiv((target - value) * springStiffness, 100 * halve)
        v == TruncDiv((velocity + force) * damping, 100)
    IN  <<v, value + v>>

applySpringPhysics(c) ==
    LET sx == Spring(c.x, c.velocityX, c.targetX, 1)
        sy == Spring(c.y, c.velocityY, c.targetY, 1)
        sz == Spring(c.zoom, c.velocityZoom, c.targetZoom, 2)
    IN  [c EXCEPT !.velocityX = sx[1], !.x = sx[2],
                  !.velocityY = sy[1], !.y = sy[2],
                  !.velocityZoom = sz[1], !.zoom = sz[2]]

\* Math.max(1, Math.min(3, zoom))
ClampZoomNever(z) == z
ClampZoom(z) == Max(Zoom(10), Min(Zoom(30), z))

clampPosition(c) ==
    LET viewWidth == TruncDiv(c.videoWidth * ZoomSub, c.zoom)
        viewHeight == TruncDiv(c.videoHeight * ZoomSub, c.zoom)
        minX == TruncDiv(viewWidth, 2)
        maxX == c.videoWidth - TruncDiv(viewWidth, 2)
        minY == TruncDiv(viewHeight, 2)
        maxY == c.videoHeight - TruncDiv(viewHeight, 2)
    IN  [c EXCEPT !.x = Max(minX, Min(maxX, c.x)),
                  !.y = Max(minY, Min(maxY, c.y)),
                  !.zoom = ClampZoom(c.zoom)]

\* this.recentTaps after the clustering bookkeeping of update
TrackRecent(recentTaps, activeTap, now) ==
    LET Fresh(t) == now - t.time < clusterTimeout
        kept == SelectSeq(recentTaps, Fresh)
    IN  IF \E k \in 1..Len(kept) : kept[k].time = activeTap.time THEN kept
        ELSE Append(kept, activeTap)

\* the targets, lastTapTime and recentTaps after the first half of update
Retarget(c, now, events, targetZoomLevel) ==
    LET activeTap == findActiveTap(now, events)
    IN  IF activeTap # Null
        THEN [c EXCEPT !.targetX = CamPx(activeTap.x),
                       !.targetY = CamPx(activeTap.y),
                       !.targetZoom = targetZoomLevel,
                       !.lastTapTime = now,
                       !.recentTaps = TrackRecent(c.recentTaps, activeTap, now)]
        ELSE IF now - c.lastTapTime > zoomHoldDuration
             THEN [c EXCEPT !.targetZoom = Zoom(10),
                            !.targetX = c.videoWidth \div 2,
                            !.targetY = c.videoHeight \div 2]
             ELSE c

update(c, now, events, targetZoomLevel) ==
    [clampPosition(applySpringPhysics(Retarget(c, now, events, targetZoomLevel)))
        EXCEPT !.lastUpdateTime = now]

\* reset that leaves the targets where they are
resetKeepTargets(c) ==
    [c EXCEPT !.x = c.videoWidth \div 2, !.y = c.videoHeight \div 2,
              !.zoom = Zoom(10),
              !.velocityX = 0, !.velocityY = 0, !.velocityZoom = 0,
              !.recentTaps = <<>>]
resetKeepVelocity(c) ==
    [c EXCEPT !.x = c.videoWidth \div 2, !.y = c.videoHeight \div 2,
              !.targetX = c.videoWidth \div 2, !.targetY = c.videoHeight \div 2,
              !.zoom = Zoom(10), !.targetZoom = Zoom(10), !.recentTaps = <<>>]
reset(c) ==
    [c EXCEPT !.x = c.videoWidth \div 2, !.y = c.videoHeight \div 2,
              !.targetX = c.videoWidth \div 2, !.targetY = c.videoHeight \div 2,
              !.zoom = Zoom(10), !.targetZoom = Zoom(10),
              !.velocityX = 0, !.velocityY = 0, !.velocityZoom = 0,
              !.recentTaps = <<>>]

\* getState(): the pose a renderer reads
Pose(c) == [x |-> c.x, y |-> c.y, zoom |-> c.zoom]

\* the detection pass is not running and has left nothing behind
DetectionIdle ==
    /\ CalIdle
    /\ LoopIdle
    /\ TapIdle
    /\ ClusterIdle
    /\ frameData = <<>>
    /\ progress = <<>>
    /\ firstPass = Null
    /\ pc = "idle"

detVars == <<calVars, pc, loopVars, frameData, progress, tapVars, cluVars, firstPass>>

\* the preview's render loop draws one frame at video time t:
\* camera.update(video.currentTime, tapEvents, zoomLevel)
PreviewFrame(t) ==
    /\ cpc \in {"ready", "live"}
    /\ camera # Null
    /\ camera' = update(camera, t, tapEvents, zoomLevel)
    /\ cpc' = "live"
    /\ UNCHANGED <<detVars, exportCamera, tapEvents, zoomLevel, time, genDuration,
                   keyframes, videoTime>>

-----------------------------------------------------------------------------
(* SpecCamera: one preview engine over an 800 x 600 video, driven by        *)
(* update calls at increasing video times 0.1 s or 0.3 s apart, for every   *)
(* tap list of up to MaxCamTaps taps (in any list order, with and without   *)
(* a zoomLevel of their own, inside and outside the frame) and a zoom level *)
(* inside or above the clamp range.                                         *)

MaxCamTaps == 2        \* longest tap list
LiveHorizon == 16      \* last call time, in steps of 0.1 s

VideoW == 800
VideoH == 600

TapA == [time |-> 30, x |-> 300, y |-> 400]
\* a tap with a zoom level of its own (handleUpdateTapZoom)
TapB == [time |-> 60, x |-> 700, y |-> 100, zoomLevel |-> Zoom(25)]
\* a tap outside the frame
TapC == [time |-> 240, x |-> -50, y |-> 900]
CamTaps == {TapA, TapB, TapC}
CamTapLists == SeqsUpTo(CamTaps, MaxCamTaps)
ZoomLevels == {Zoom(18), Zoom(50)}

\* the video times a render loop may draw next
LiveTimes ==
    IF cpc = "ready" THEN {0, 30}
    ELSE {t \in {camera.lastUpdateTime + 30, camera.lastUpdateTime + 90} :
            t <= 30 * LiveHorizon}

InitCamera ==
    /\ DetectionIdle
    /\ camera = CameraEngine(VideoW, VideoH)
    /\ exportCamera = Null
    /\ tapEvents \in CamTapLists
    /\ zoomLevel \in ZoomLevels
    /\ cpc = "ready"
    /\ time = 0
    /\ genDuration = 0
    /\ keyframes = <<>>
    /\ videoTime = 0

NextCamera == \E t \in LiveTimes : PreviewFrame(t)

SpecCamera == InitCamera /\ [][NextCamera]_vars

\* C12: after every update the zoom lies in [1, 3] (update has no failing
\* step: every operation of it is defined on every state).
C12_ZoomClamped ==
    cpc = "live" => ZoomSub <= camera.zoom /\ camera.zoom <= 3 * ZoomSub

\* the spring has carried the zoom above 3 and the clamp has cut it, with an
\* out-of-frame tap as the target
C12_Witness ==
    /\ cpc = "live"
    /\ camera.zoom = 3 * ZoomSub
    /\ camera.velocityZoom > 0
    /\ camera.targetX < 0

-----------------------------------------------------------------------------
(* SpecScenario: a fresh engine over an 800 x 600 video and the single tap  *)
(* at time 1.0, x = 300, y = 400, zoom level 1.8; update is called at       *)
(* t = 1.0 and then every 1/30 s.                                           *)

MaxScenarioSteps == 140    \* number of 1/30 s steps after t = 1.0

ScenarioTap == [time |-> 300, x |-> 300, y |-> 400]
ScenarioStart == 300

ScenarioTime ==
    IF cpc = "ready" THEN ScenarioStart ELSE camera.lastUpdateTime + CamFrameTicks

InitScenario ==
    /\ DetectionIdle
    /\ camera = CameraEngine(VideoW, VideoH)
    /\ exportCamera = Null
    /\ tapEvents = <<ScenarioTap>>
    /\ zoomLevel = Zoom(18)
    /\ cpc = "ready"
    /\ time = 0
    /\ genDuration = 0
    /\ keyframes = <<>>
    /\ videoTime = 0

NextScenario ==
    /\ ScenarioTime <= ScenarioStart + CamFrameTicks * MaxScenarioSteps
    /\ PreviewFrame(ScenarioTime)

SpecScenario == InitScenario /\ [][NextScenario]_vars

Abs(n) == IF n >= 0 THEN n ELSE -n

\* half the extent of the viewport at zoom z over a frame of extent w
HalfView(w, z) == (w * ZoomSub) \div (2 * z)

\* the viewport of pose c lies inside the source frame (to one unit of the
\* position resolution)
ViewportInside(c) ==
    /\ HalfView(c.videoWidth, c.zoom) <= c.x + 1
    /\ c.x - 1 <= c.videoWidth - HalfView(c.videoWidth, c.zoom)
    /\ HalfView(c.videoHeight, c.zoom) <= c.y + 1
    /\ c.y - 1 <= c.videoHeight - HalfView(c.videoHeight, c.zoom)

\* C13: after every update the zoomed viewport lies inside the source frame.
C13_ViewportInsideFrame == cpc = "live" => ViewportInside(camera)

\* the tap that is active at the time of the last update call, or Null
ActiveAtCall == findActiveTap(camera.lastUpdateTime, tapEvents)

\* the zoom a tap asks for: its own zoomLevel when it has one
WantedZoom(tap) ==
    IF "zoomLevel" \in DOMAIN tap THEN tap.zoomLevel ELSE zoomLevel

\* C14: when a tap is active at the call time, after update the target
\* position is the tap's position and the target zoom is the tap's own
\* zoomLevel when it has one, and the zoom level argument otherwise.
C14_TargetsFollowActiveTap ==
    cpc = "live" /\ ActiveAtCall # Null =>
        /\ camera.targetX = CamPx(ActiveAtCall.x)
        /\ camera.targetY = CamPx(ActiveAtCall.y)
        /\ camera.targetZoom = WantedZoom(ActiveAtCall)

\* the time of the last of the 60 steps of 1/30 s after t = 1.0
ScenarioEnd == ScenarioStart + 60 * CamFrameTicks

\* the pose is within 5px and 0.05 zoom of the tap and its zoom level
NearTap(c) ==
    /\ Abs(c.x - CamPx(ScenarioTap.x)) < CamPx(5)
    /\ Abs(c.y - CamPx(ScenarioTap.y)) < CamPx(5)
    /\ 20 * Abs(c.zoom - Zoom(18)) < ZoomSub

\* C15: with the single tap at 1.0 and zoom level 1.8, the calls from 1.0 to
\* 3.0 end within 5px and 0.05 zoom of the target, and the zoom never
\* decreases from one of these calls to the next.
C15_ConvergesWithoutOvershoot ==
    /\ [](cpc = "live" /\ camera.lastUpdateTime = ScenarioEnd => NearTap(camera))
    /\ [][camera'.lastUpdateTime <= ScenarioEnd => camera'.zoom >= camera.zoom]_vars

\* the call time 1.0 + 1.2 + 0.5
ReleaseProbe == ScenarioStart + 360 + 150

\* C16: the call at t = 2.7 leaves the target zoom at
\* 1.8 - 0.8 * easeInOutCubic(0.5) = 1.4, within 0.01.
C16_EasedRelease ==
    cpc = "live" /\ camera.lastUpdateTime = ReleaseProbe =>
        100 * Abs(camera.targetZoom - Zoom(14)) <= ZoomSub

-----------------------------------------------------------------------------
(* SpecReset: the preview engine is driven for a while, then reset, and     *)
(* from then on every update call is made both on it and on an engine       *)
(* constructed at the time of the reset.  Call times start again at the     *)
(* beginning of the video after the reset.                                  *)

PreHorizon == 15       \* last call time before the reset, in steps of 0.2 s
ReplayHorizon == 20    \* last call time after the reset, in steps of 0.2 s

\* a late tap
TapD == [time |-> 900, x |-> 100, y |-> 500]
ResetTapLists == SeqsUpTo({TapA, TapD}, MaxCamTaps)

\* call times 0.2 s or 1.0 s after the last one (or the first: 0, 0.2 s or
\* 2.2 s)
StepTimes(first, last, horizon) ==
    IF first THEN {0, 60, 660}
    ELSE {t \in {last + 60, last + 300} : t <= 60 * horizon}

InitReset ==
    /\ DetectionIdle
    /\ camera = CameraEngine(VideoW, VideoH)
    /\ exportCamera = Null
    /\ tapEvents \in ResetTapLists
    /\ zoomLevel = Zoom(18)
    /\ cpc = "ready"
    /\ time = 0
    /\ genDuration = 0
    /\ keyframes = <<>>
    /\ videoTime = 0

\* cameraEngineRef.current.reset(); a second engine is constructed
ResetPreview ==
    /\ cpc \in {"ready", "live"}
    /\ camera' = reset(camera)
    /\ exportCamera' = CameraEngine(VideoW, VideoH)
    /\ cpc' = "reset"
    /\ UNCHANGED <<detVars, tapEvents, zoomLevel, time, genDuration, keyframes,
                   videoTime>>

\* the same update call on both engines
ReplayFrame(t) ==
    /\ cpc \in {"reset", "replay"}
    /\ camera' = update(camera, t, tapEvents, zoomLevel)
    /\ exportCamera' = update(exportCamera, t, tapEvents, zoomLevel)
    /\ cpc' = "replay"
    /\ UNCHANGED <<detVars, tapEvents, zoomLevel, time, genDuration, keyframes,
                   videoTime>>

NextReset ==
    \/ /\ cpc \in {"ready", "live"}
       /\ \E t \in StepTimes(cpc = "ready", camera.lastUpdateTime, PreHorizon) :
             PreviewFrame(t)
    \/ ResetPreview
    \/ /\ cpc \in {"reset", "replay"}
       /\ \E t \in StepTimes(cpc = "reset", exportCamera.lastUpdateTime,
                             ReplayHorizon) : ReplayFrame(t)

SpecReset == InitReset /\ [][NextReset]_vars

\* pose and targets centred, zoom and target zoom 1, velocities zero
AtRest(c) ==
    /\ c.x = c.videoWidth \div 2 /\ c.y = c.videoHeight \div 2
    /\ c.targetX = c.x /\ c.targetY = c.y
    /\ c.zoom = Zoom(10) /\ c.targetZoom = Zoom(10)
    /\ c.velocityX = 0 /\ c.velocityY = 0 /\ c.velocityZoom = 0

\* C17: reset leaves the engine centred at zoom 1 with zero velocities, and
\* after it the engine's pose after every update call equals the pose of a
\* freshly constructed engine given the same calls.
C17_ResetLikeFresh ==
    /\ cpc = "reset" => AtRest(camera)
    /\ cpc = "replay" =>
          /\ camera.x = exportCamera.x
          /\ camera.y = exportCamera.y
          /\ camera.zoom = exportCamera.zoom

\* the reset engine still carries the lastTapTime of a tap followed before
\* the reset, and the replay is at a time where the fresh engine is past
\* its hold duration
C17_Witness ==
    /\ cpc = "replay"
    /\ camera.lastTapTime > exportCamera.lastTapTime
    /\ exportCamera.lastUpdateTime > zoomHoldDuration

-----------------------------------------------------------------------------
(* SpecKeyframes: the engine is driven for a while and then                 *)
(* generateKeyframes(tapEvents, duration, 30, zoomLevel) runs on it, one    *)
(* loop iteration per step.                                                 *)

MaxGenFrames == 12     \* frames of the longest generated clip

\* durations: empty, a whole number of frames, and between two frames
GenDurations == {0, CamFrameTicks * 3, CamFrameTicks * 3 + 5,
                 CamFrameTicks * MaxGenFrames}

InitKeyframes == InitReset

\* this.reset() at the start of generateKeyframes
GenResetNever(c) == c
GenReset(c) == reset(c)

\* generateKeyframes up to the first test of the loop
GenStart(d) ==
    /\ cpc \in {"ready", "live"}
    /\ genDuration' = d
    /\ keyframes' = <<>>
    /\ camera' = GenReset(camera)
    /\ time' = 0
    /\ cpc' = "gen"
    /\ UNCHANGED <<detVars, exportCamera, tapEvents, zoomLevel, videoTime>>

\* one iteration of the for loop
GenStep ==
    /\ cpc = "gen"
    /\ time < genDuration
    /\ LET c == update(camera, time, tapEvents, zoomLevel)
       IN  /\ camera' = c
           /\ keyframes' = Append(keyframes,
                                  [time |-> time, x |-> c.x, y |-> c.y, zoom |-> c.zoom])
    /\ time' = time + CamFrameTicks
    /\ UNCHANGED <<detVars, exportCamera, tapEvents, zoomLevel, cpc, genDuration,
                   videoTime>>

\* the loop ends: this.reset(); return keyframes
GenExit ==
    /\ cpc = "gen"
    /\ ~(time < genDuration)
    /\ camera' = reset(camera)
    /\ cpc' = "genDone"
    /\ UNCHANGED <<detVars, exportCamera, tapEvents, zoomLevel, time, genDuration,
                   keyframes, videoTime>>

NextKeyframes ==
    \/ /\ cpc \in {"ready", "live"}
       /\ \E t \in StepTimes(cpc = "ready", camera.lastUpdateTime, PreHorizon) :
             PreviewFrame(t)
    \/ \E d \in GenDurations : GenStart(d)
    \/ GenStep
    \/ GenExit

SpecKeyframes == InitKeyframes /\ [][NextKeyframes]_vars

\* the keyframes of update calls at t, t + 1/30, ... below d on engine c
RECURSIVE KeyframesFrom(_, _, _)
KeyframesFrom(c, t, d) ==
    IF ~(t < d) THEN <<>>
    ELSE LET n == update(c, t, tapEvents, zoomLevel)
         IN  <<[time |-> t, x |-> n.x, y |-> n.y, zoom |-> n.zoom]>>
                 \o KeyframesFrom(n, t + CamFrameTicks, d)

\* C18: generateKeyframes records one keyframe per 1/fps step from time 0 up
\* to the duration, in increasing time order; the list is the one a freshly
\* constructed engine produces, whatever the engine did before; and on
\* return the engine is centred at zoom 1 with zero velocities.
C18_KeyframesFromReset ==
    /\ cpc \in {"gen", "genDone"} =>
          \A k \in 1..Len(keyframes) : keyframes[k].time = (k - 1) * CamFrameTicks
    /\ cpc = "genDone" =>
          /\ Len(keyframes) * CamFrameTicks >= genDuration
          /\ Len(keyframes) > 0 => keyframes[Len(keyframes)].time < genDuration
          /\ keyframes = KeyframesFrom(CameraEngine(VideoW, VideoH), 0, genDuration)
          /\ AtRest(camera)

\* a clip of the longest duration was generated, the camera zooming in on a
\* tap and moving; the engine is at rest again
C18_Witness ==
    /\ cpc = "genDone"
    /\ Len(keyframes) = MaxGenFrames
    /\ keyframes[Len(keyframes)].zoom > Zoom(12)
    /\ keyframes[Len(keyframes)].x # keyframes[1].x
    /\ camera.zoom = Zoom(10)

-----------------------------------------------------------------------------
(* SpecParity: the preview engine is driven live, one update per displayed  *)
(* frame with the video time of that frame (every video frame, or skipping  *)
(* one when the display falls behind), while an export drives an engine of  *)
(* its own with one update per encoded frame at frameIdx / 30.              *)

ParityFrames == 8      \* the video frames both loops run over

\* video times the render loop may draw next: the next video frame or the
\* one after it
DisplayTimes ==
    IF cpc = "ready" THEN {0, CamFrameTicks}
    ELSE {t \in {camera.lastUpdateTime + CamFrameTicks,
                 camera.lastUpdateTime + 2 * CamFrameTicks} :
            t <= CamFrameTicks * ParityFrames}

InitParity ==
    /\ DetectionIdle
    /\ camera = CameraEngine(VideoW, VideoH)
    /\ exportCamera = CameraEngine(VideoW, VideoH)
    /\ tapEvents \in CamTapLists
    /\ zoomLevel = Zoom(18)
    /\ cpc = "ready"
    /\ time = 0
    /\ genDuration = 0
    /\ keyframes = <<>>
    /\ videoTime = 0

\* one iteration of exportFast's frame loop: renderFrame calls
\* camera.update(currentTime, tapEvents, zoomLevel) on the export's engine
ExportFrame ==
    /\ exportCamera # Null
    /\ time <= CamFrameTicks * ParityFrames
    /\ exportCamera' = update(exportCamera, time, tapEvents, zoomLevel)
    /\ time' = time + CamFrameTicks
    /\ UNCHANGED <<detVars, camera, tapEvents, zoomLevel, cpc, genDuration, keyframes,
                   videoTime>>

NextParity ==
    \/ \E t \in DisplayTimes : PreviewFrame(t)
    \/ ExportFrame

SpecParity == InitParity /\ [][NextParity]_vars

\* both engines have been updated, last at the same video time
SameVideoTime ==
    /\ cpc = "live"
    /\ time > 0
    /\ camera.lastUpdateTime = exportCamera.lastUpdateTime

\* C19: at the same video time the live engine and the export's engine have
\* the same pose, however many update calls each has had.
C19_PreviewExportParity ==
    SameVideoTime => Pose(camera) = Pose(exportCamera)

-----------------------------------------------------------------------------
(* findActiveTap on the calls of SpecCamera *)

\* the call time of the last update
CallTime == camera.lastUpdateTime

\* positions in the tap list of the taps whose window covers the call time:
\* ahead of it by less than 0.3 s, or at most 0.8 s (exclusive) behind it
AheadIdx ==
    {k \in 1..Len(tapEvents) :
        tapEvents[k].time > CallTime /\ tapEvents[k].time - CallTime < lookAhead}
BehindIdx ==
    {k \in 1..Len(tapEvents) :
        tapEvents[k].time <= CallTime /\ CallTime - tapEvents[k].time < lookBehind}
CoveringIdx == AheadIdx \cup BehindIdx

Lowest(S) == CHOOSE k \in S : \A j \in S : k <= j
Highest(S) == CHOOSE k \in S : \A j \in S : k >= j

TargetIs(tap) ==
    /\ camera.targetX = CamPx(tap.x)
    /\ camera.targetY = CamPx(tap.y)

\* C20 as stated: when several taps cover the call time, the target is the
\* first of them in tap-list order.
C20_FirstCoveringTap ==
    cpc = "live" /\ Cardinality(CoveringIdx) >= 2 =>
        TargetIs(tapEvents[Lowest(CoveringIdx)])

\* C20 amended: when several taps cover the call time, the target is the
\* first tap in list order among those ahead of the call time if there is
\* one, and otherwise the last tap in list order among those behind it.
C20_FirstAheadElseLastBehind ==
    cpc = "live" /\ Cardinality(CoveringIdx) >= 2 =>
        IF AheadIdx # {} THEN TargetIs(tapEvents[Lowest(AheadIdx)])
        ELSE TargetIs(tapEvents[Highest(BehindIdx)])

\* two different taps behind the call time, none ahead: the later one in
\* the list is the target
C20_Witness ==
    /\ cpc = "live"
    /\ AheadIdx = {}
    /\ BehindIdx = {1, 2}
    /\ tapEvents[1] # tapEvents[2]
    /\ TargetIs(tapEvents[2])
-----------------------------------------------------------------------------
(* SpecIdle: the engine of SpecReset is driven for a while and reset; from  *)
(* then on it and an engine constructed at the reset receive update calls   *)
(* at times in any order, until a tap has become active at one of them.     *)

\* call times in no order: inside and outside the windows of TapA and TapD,
\* before and after the hold duration
IdleTimes == {0, 300, 600, 900, 1200}

\* no tap has been active at an update call since construction or reset:
\* update pushes the active tap to recentTaps, which only reset empties
NoTapYet(c) == c.recentTaps = <<>>

NextIdle ==
    \/ /\ cpc \in {"ready", "live"}
       /\ \E t \in StepTimes(cpc = "ready", camera.lastUpdateTime, PreHorizon) :
             PreviewFrame(t)
    \/ ResetPreview
    \/ /\ cpc \in {"reset", "replay"}
       /\ NoTapYet(camera)
       /\ \E t \in IdleTimes : ReplayFrame(t)

SpecIdle == InitReset /\ [][NextIdle]_vars

Centred(c) ==
    /\ c.x = c.videoWidth \div 2
    /\ c.y = c.videoHeight \div 2
    /\ c.zoom = Zoom(10)

\* C21: on a fresh engine and on a reset one, as long as no tap has been
\* active at any update call so far, the pose after every update is exactly
\* the frame centre with zoom 1, for call times in any order; and a call at
\* which a tap is active is never counted as idle.
C21_IdleStaysCentred ==
    /\ [](cpc = "replay" /\ NoTapYet(camera) => Centred(camera))
    /\ [](cpc = "replay" /\ NoTapYet(exportCamera) => Centred(exportCamera))
    /\ [][cpc' = "replay" =>
            /\ findActiveTap(camera'.lastUpdateTime, tapEvents) # Null =>
                  ~NoTapYet(camera') /\ ~NoTapYet(exportCamera')
            /\ NoTapYet(camera) /\ findActiveTap(camera'.lastUpdateTime, tapEvents) = Null =>
                  NoTapYet(camera') /\ NoTapYet(exportCamera')]_vars

\* the engine followed a tap before its reset, and after it has been called
\* at a time past the hold duration and then at an earlier time, no tap
\* being active
C21_Witness ==
    /\ cpc = "replay"
    /\ NoTapYet(camera)
    /\ camera.lastTapTime > 0
    /\ camera.lastUpdateTime < camera.lastTapTime
    /\ tapEvents # <<>>
-----------------------------------------------------------------------------
(* SpecScore: the frame loop of a pass of MaxScoreFrames frames, with or    *)
(* without calibration marks set before the pass.  The candidates are       *)
(* chosen so that equal scores, every factor and hard skips occur.          *)

MaxScoreFrames == 6

ScoreA == [x |-> Px(210), y |-> Px(210), pixelCount |-> 40]  \* 14px from ExcludeMark
ScoreB == [x |-> Px(510), y |-> Px(210), pixelCount |-> 40]  \* 300px from ScoreA
ScoreC == [x |-> Px(240), y |-> Px(210), pixelCount |-> 20]  \* 30px from ScoreA
ScoreD == [x |-> Px(420), y |-> Px(310), pixelCount |-> 30]  \* 22px from TargetMark

ScoreCandLists ==
    { <<ScoreA>>, <<ScoreA, ScoreB>>, <<ScoreC, ScoreB>>, <<ScoreB, ScoreC>>,
      <<ScoreD, ScoreC, ScoreA>> }

NextScore ==
    \/ pc = "idle" /\ setCalibration(TargetMark, ExcludeMark)
    \/ RunDetection(FrameInterval * MaxScoreFrames)
    \/ \E c \in ScoreCandLists : ProcessFrame(c)

SpecScore == InitSelect /\ [][NextScore]_vars

\* a step that processes one frame
FrameStep == pc = "seeking" /\ frameIndex' = frameIndex + 1

\* C22: selectBestCircle returns the candidate with the highest score among
\* those that are not hard-skipped, the first in list order when several have
\* it; it returns no candidate iff the list is empty or every candidate is
\* hard-skipped.  The selection reads the stationary map as updated for the
\* frame, and the history and last position of the frames before.
C22_HighestScoreSelected ==
    [][FrameStep =>
        LET cands == candidates'
            Alive == {k \in 1..Len(cands) :
                        ~Skipped(cands[k], lastValidPosition, history,
                                 localStationaryMap', calibratedExcludePos)}
            ScoreOf(k) == Score(cands[k], lastValidPosition, history,
                                localStationaryMap', calibratedTargetPos,
                                calibratedExcludePos)
            Top == {k \in Alive : \A j \in Alive : ScoreOf(k) >= ScoreOf(j)}
        IN  /\ (circle' = Null) <=> (Alive = {})
            /\ Alive # {} => circle' = cands[Lowest(Top)]]_vars

\* the second frame of a pass: the smaller candidate, 30px from the position
\* accepted in the first frame, has its score doubled to that of the larger
\* one and is selected because it comes first in the list
C22_Witness ==
    /\ FrameDone
    /\ frameIndex = 2
    /\ frameData[1].pos = Pos(ScoreA.x, ScoreA.y)
    /\ calibratedExcludePos = Null /\ calibratedTargetPos = Null
    /\ candidates = <<ScoreC, ScoreB>>
    /\ circle = ScoreC
-----------------------------------------------------------------------------
(* Hard skips of far candidates, on the frames of SpecScore *)

\* candidate c is more than 200px from the position predicted from history h
FarFromPredicted(c, h) ==
    /\ Predicted2(h) # Null
    /\ Sq(2 * c.x - Predicted2(h).x) + Sq(2 * c.y - Predicted2(h).y)
          > Sq(2 * 200 * SubPx)

\* candidate c is more than 250px from the last accepted position
FarFromLast(c, last) ==
    /\ last # Null
    /\ Sq(c.x - last.x) + Sq(c.y - last.y) > Sq(250 * SubPx)

\* C23: whenever a prediction exists, a candidate more than 200px from it
\* that lies in a stationary zone is never selected, and a candidate more
\* than 250px from the last accepted position that lies in a stationary zone
\* is never selected, whatever the velocity and the other candidates.
C23_FarStationaryNeverSelected ==
    [][FrameStep /\ circle' # Null /\ isInStationaryZone(circle', localStationaryMap') =>
         /\ ~FarFromPredicted(circle', history)
         /\ ~FarFromLast(circle', lastValidPosition)]_vars
-----------------------------------------------------------------------------
(* SpecDecay: the frame loop of a pass of MaxDecayFrames frames.  The       *)
(* first SightFrames frames show nothing, the fixed candidate, or the fixed *)
(* candidate and a second one; then come frames with no candidate; from     *)
(* frame 20 on a frame shows nothing or one candidate, in the fixed         *)
(* candidate's grid cell or in another one.                                 *)

MaxDecayFrames == 25
SightFrames == 3

DecayCandLists ==
    IF frameIndex < SightFrames
        THEN {<<>>, <<FixedCand>>, <<FixedCand, MoverAt(Pos(Px(610), Px(110)))>>}
    ELSE IF frameIndex < DecayFrames THEN {<<>>}
    ELSE {<<>>, <<MoverAt(Pos(Px(145), Px(149)))>>, <<MoverAt(Pos(Px(310), Px(110)))>>}

NextDecay ==
    \/ RunDetection(FrameInterval * MaxDecayFrames)
    \/ \E c \in DecayCandLists : ProcessFrame(c)

SpecDecay == InitSelect /\ [][NextDecay]_vars

\* no candidate of the list lies in grid cell key
CellEmpty(cands, key) ==
    \A k \in 1..Len(cands) :
        <<cands[k].x \div (50 * SubPx), cands[k].y \div (50 * SubPx)>> # key

\* C24: after the stationary update for frame f the map holds no entry last
\* seen more than 20 frames before f; an entry whose cell receives no
\* candidate is deleted at the first frame more than 20 frames after its
\* last sighting and is unchanged (frameCount included) until then.
C24_StationaryDecay ==
    /\ [](FrameDone =>
            \A key \in DOMAIN localStationaryMap :
                LastFrame - localStationaryMap[key].lastSeen <= 20)
    /\ [][FrameStep =>
            \A key \in DOMAIN localStationaryMap :
                CellEmpty(candidates', key) =>
                    IF frameIndex - localStationaryMap[key].lastSeen > 20
                    THEN key \notin DOMAIN localStationaryMap'
                    ELSE /\ key \in DOMAIN localStationaryMap'
                         /\ localStationaryMap'[key] = localStationaryMap[key]]_vars

\* the fixed candidate was seen in frame 0 only, its entry was still there
\* after frame 20 and frame 21 has deleted it
C24_Witness ==
    /\ FrameDone
    /\ LastFrame = 21
    /\ frameData[1].pos = Pos(FixedCand.x, FixedCand.y)
    /\ frameData[2].pos = Null
    /\ frameData[3].pos = Null
    /\ frameData[21].pos = Null
    /\ candidates = <<>>
    /\ getStationaryKey(FixedCand) \notin DOMAIN localStationaryMap
-----------------------------------------------------------------------------
(* SpecMark: the frame loop of a pass of MaxMarkFrames frames; every frame  *)
(* shows up to two different candidates out of four, three of them in one   *)
(* grid cell.                                                               *)

MaxMarkFrames == 3

MarkP == [x |-> Px(100), y |-> Px(100), pixelCount |-> 40]
MarkQ == [x |-> Px(130), y |-> Px(140), pixelCount |-> 30]   \* exactly 50px from MarkP
MarkR == [x |-> Px(120), y |-> Px(120), pixelCount |-> 20]   \* 28px from MarkP, 22px from MarkQ
MarkS == [x |-> Px(310), y |-> Px(110), pixelCount |-> 25]   \* in another cell

MarkCandLists ==
    {l \in SeqsUpTo({MarkP, MarkQ, MarkR, MarkS}, 2) : Len(l) = 2 => l[1] # l[2]}

NextMark ==
    \/ RunDetection(FrameInterval * MaxMarkFrames)
    \/ \E c \in MarkCandLists : ProcessFrame(c)

SpecMark == InitSelect /\ [][NextMark]_vars

CellOf(c) == <<c.x \div (50 * SubPx), c.y \div (50 * SubPx)>>

\* the entry of a cell after one candidate c of frame f, entry being the
\* cell's entry before it (Null: none)
EntryAfter(entry, c, f) ==
    IF entry # Null
        /\ Sq(c.x - entry.x) + Sq(c.y - entry.y) < Sq(50 * SubPx)
    THEN [x |-> entry.x, y |-> entry.y, frameCount |-> entry.frameCount + 1,
          lastSeen |-> f]
    ELSE [x |-> c.x, y |-> c.y, frameCount |-> 1, lastSeen |-> f]

\* the entry of cell key after the candidates k.. of the list, in list order
RECURSIVE EntryAfterAll(_, _, _, _, _)
EntryAfterAll(entry, cands, k, f, key) ==
    IF k > Len(cands) THEN entry
    ELSE EntryAfterAll(IF CellOf(cands[k]) = key THEN EntryAfter(entry, cands[k], f)
                       ELSE entry,
                       cands, k + 1, f, key)

-----------------------------------------------------------------------------
(* SpecHistory: the frame loop of a pass of MaxHistFrames frames; a frame   *)
(* shows no candidate or one candidate on a track that advances 30px per    *)
(* frame and swings vertically.                                             *)

MaxHistFrames == 12

TrackCand(f) ==
    [x |-> Px(100 + 30 * f) + (f % 2), y |-> Px(100 + 45 * (f % 3)),
     pixelCount |-> 40]

NextHistory ==
    \/ RunDetection(FrameInterval * MaxHistFrames)
    \/ \E c \in {<<>>, <<TrackCand(frameIndex)>>} : ProcessFrame(c)

SpecHistory == InitSelect /\ [][NextHistory]_vars

\* the accepted positions of the first k frames, in frame order, each with
\* its frame index
RECURSIVE Accepted(_, _)
Accepted(fd, k) ==
    IF k = 0 THEN <<>>
    ELSE Accepted(fd, k - 1) \o
         (IF fd[k].pos # Null
          THEN << [x |-> fd[k].pos.x, y |-> fd[k].pos.y, frame |-> k - 1] >>
          ELSE <<>>)

\* the last n elements of a sequence (all of it when it is shorter)
LastN(s, n) == IF Len(s) <= n THEN s ELSE SubSeq(s, Len(s) - n + 1, Len(s))

\* C26: after every frame the history holds at most 10 entries, exactly the
\* most recent accepted positions in frame order; the velocity is
\* (last - third from last) / 2, zero below 3 samples; the prediction is
\* last + velocity, null below 2 samples.  (Velocity and prediction are kept
\* doubled, so that they stay whole numbers.)
C26_TrajectoryState ==
    pc \in {"seeking", "synthStart"} =>
        LET n == Len(history)
            twiceVelocity ==
                IF n < 3 THEN [x |-> 0, y |-> 0]
                ELSE [x |-> history[n].x - history[n - 2].x,
                      y |-> history[n].y - history[n - 2].y]
        IN  /\ n <= 10
            /\ history = LastN(Accepted(frameData, Len(frameData)), 10)
            /\ Velocity2(history) = twiceVelocity
            /\ Predicted2(history) =
                  IF n < 2 THEN Null
                  ELSE [x |-> 2 * history[n].x + twiceVelocity.x,
                        y |-> 2 * history[n].y + twiceVelocity.y]

\* eleven of twelve frames had a selection: the history has dropped the
\* oldest one, skips the frame without selection, and the track is moving
C26_Witness ==
    /\ pc = "synthStart"
    /\ Len(frameData) = MaxHistFrames
    /\ Len(Accepted(frameData, Len(frameData))) = 11
    /\ Len(history) = 10
    /\ \E k \in 1..9 : history[k + 1].frame = history[k].frame + 2
    /\ Velocity2(history) # [x |-> 0, y |-> 0]
-----------------------------------------------------------------------------
(* Order of the frame loop, on the passes of SpecScore.  While pc is        *)
(* "seeking" the seek for frame frameIndex is in flight; a frame step runs  *)
(* from the resolved seek to the issue of the next one.                     *)

\* C27: frames are processed one at a time in increasing frame order: while
\* the seek for a frame is in flight, the debug data, history and stationary
\* map hold the complete results of exactly the frames before it; and in
\* each frame the stationary map is updated with the frame's candidates
\* before the selection reads it.
C27_FramesInOrder ==
    /\ [](pc = "seeking" =>
            /\ Len(frameData) = frameIndex
            /\ currentTime = frameIndex * 10
            /\ \A k \in 1..Len(frameData) : frameData[k].time = (k - 1) * 10
            /\ \A k \in 1..Len(history) : history[k].frame < frameIndex
            /\ \A k \in 1..(Len(history) - 1) : history[k].frame < history[k + 1].frame
            /\ \A key \in DOMAIN localStationaryMap :
                  localStationaryMap[key].lastSeen < frameIndex
            /\ frameIndex >= 1 =>
                  (frameData[frameIndex].pos # Null <=>
                      /\ history # <<>>
                      /\ history[Len(history)].frame = frameIndex - 1))
    /\ [][FrameStep =>
            LET updated == updateStationaryTracking(candidates', frameIndex,
                                                    localStationaryMap)
            IN  /\ localStationaryMap' = updated
                /\ circle' = selectBestCircle(candidates', lastValidPosition, history,
                                              updated, calibratedTargetPos,
                                              calibratedExcludePos)
                /\ Len(frameData') = frameIndex + 1
                /\ frameData'[frameIndex + 1].time = currentTime]_vars

\* the only candidate of the frame reaches frameCount 10 in this very frame
\* and is hard-skipped: the selection has read the updated map
C27_Witness ==
    /\ FrameDone
    /\ candidates = <<ScoreA>>
    /\ calibratedExcludePos = Null
    /\ localStationaryMap[getStationaryKey(ScoreA)].frameCount = 10
    /\ circle = Null
-----------------------------------------------------------------------------
(* SpecPlayback: the interactive preview (hooks/useVideoPlayback.js and the *)
(* render loop).  The video plays in steps of 0.1 s, the user seeks on the  *)
(* timeline, and the render loop draws the frame at the video's time with   *)
(* camera.update(video.currentTime, tapEvents, zoomLevel).                  *)

PlaybackHorizon == 8       \* end of the video, in steps of 0.1 s

\* times the user seeks to: the start, 0.2 s and 0.5 s
SeekTimes == {0, 60, 150}

\* currentTime < 0.1
NearStart(t) == t < 30

\* handleSeek(t): the currentTime prop becomes t; the first effect moves the
\* video there, the second resets the camera when currentTime < 0.1
handleSeek(t) ==
    /\ cpc \in {"ready", "live"}
    /\ camera # Null
    /\ videoTime' = t
    /\ camera' = IF NearStart(t) THEN reset(camera) ELSE camera
    /\ cpc' = IF NearStart(t) THEN "ready" ELSE cpc
    /\ UNCHANGED <<detVars, exportCamera, tapEvents, zoomLevel, time, genDuration,
                   keyframes>>

\* the video plays on by 0.1 s
PlayTick ==
    /\ cpc \in {"ready", "live"}
    /\ videoTime + 30 <= 30 * PlaybackHorizon
    /\ videoTime' = videoTime + 30
    /\ UNCHANGED <<detVars, camera, exportCamera, tapEvents, zoomLevel, cpc, time,
                   genDuration, keyframes>>

\* the render loop draws the frame the video shows (once per video time)
Render ==
    /\ cpc = "ready" \/ videoTime # camera.lastUpdateTime
    /\ PreviewFrame(videoTime)

InitPlayback ==
    /\ DetectionIdle
    /\ camera = CameraEngine(VideoW, VideoH)
    /\ exportCamera = Null
    /\ tapEvents \in {<<>>, <<TapA>>}
    /\ zoomLevel = Zoom(18)
    /\ cpc = "ready"
    /\ time = 0
    /\ genDuration = 0
    /\ keyframes = <<>>
    /\ videoTime = 0

NextPlayback ==
    \/ \E t \in SeekTimes : handleSeek(t)
    \/ PlayTick
    \/ Render

SpecPlayback == InitPlayback /\ [][NextPlayback]_vars

\* C28: between two resets of the preview's engine, update is called with
\* non-decreasing times (cpc is "live" from the first update after a reset
\* to the next reset).
C28_MonotonicBetweenResets ==
    [][cpc = "live" /\ cpc' = "live" =>
          camera'.lastUpdateTime >= camera.lastUpdateTime]_vars
-----------------------------------------------------------------------------
(* SpecRelease: a fresh engine over an 800 x 600 video and a tap list whose *)
(* taps all lie in the first second; update is called at t = 0 and then     *)
(* every 1/30 s up to the horizon, and from then on again and again at the  *)
(* horizon time (call times never decrease).                                *)

ReleaseHorizon == 200      \* last call time, in steps of 1/30 s

ReleaseTapLists == {<<TapA>>, <<TapB>>, <<TapC>>, <<TapA, TapB>>, <<TapC, TapA>>}

ReleaseTime ==
    IF cpc = "ready" THEN 0
    ELSE Min(camera.lastUpdateTime + CamFrameTicks, CamFrameTicks * ReleaseHorizon)

InitRelease ==
    /\ DetectionIdle
    /\ camera = CameraEngine(VideoW, VideoH)
    /\ exportCamera = Null
    /\ tapEvents \in ReleaseTapLists
    /\ zoomLevel \in ZoomLevels
    /\ cpc = "ready"
    /\ time = 0
    /\ genDuration = 0
    /\ keyframes = <<>>
    /\ videoTime = 0

NextRelease == PreviewFrame(ReleaseTime)

\* the render loop keeps calling update
SpecRelease == InitRelease /\ [][NextRelease]_vars /\ WF_vars(NextRelease)

\* the tap that was active at the last update at which one was active
LastActiveTap == findActiveTap(camera.lastTapTime, tapEvents)

\* a tap has been active, none is at the last call, and the hold period
\* since the last call with an active tap is over / not over
Engaged == cpc = "live" /\ camera.recentTaps # <<>> /\ ActiveAtCall = Null
HoldOver == Engaged /\ CallTime - camera.lastTapTime > 600
Holding == Engaged /\ ~(CallTime - camera.lastTapTime > 600)

TargetsCentred(c) ==
    /\ c.targetX = c.videoWidth \div 2
    /\ c.targetY = c.videoHeight \div 2
    /\ c.targetZoom = ZoomSub

\* the pose is within half a pixel and 0.01 zoom of the centre at zoom 1
Settled(c) ==
    /\ 2 * Abs(c.x - c.videoWidth \div 2) <= CamSub
    /\ 2 * Abs(c.y - c.videoHeight \div 2) <= CamSub
    /\ 100 * Abs(c.zoom - ZoomSub) <= ZoomSub

\* released and settled at the centre
ReleasedAndSettled == HoldOver /\ Settled(camera)

\* C29: before the hold period has elapsed the targets are the last active
\* tap's position and zoom; once it has elapsed with no tap active the
\* targets are the frame centre and zoom 1, and under continued update calls
\* the pose eventually is at the centre with zoom 1 and stays there.
C29_ReleaseToCentre ==
    /\ [](Holding =>
            /\ camera.targetX = CamPx(LastActiveTap.x)
            /\ camera.targetY = CamPx(LastActiveTap.y)
            /\ camera.targetZoom = WantedZoom(LastActiveTap))
    /\ [](HoldOver => TargetsCentred(camera))
    /\ <>[]ReleasedAndSettled
-----------------------------------------------------------------------------
(* Calibration hints during a pass, on the passes of SpecSelect *)

\* C30: the calibration hints are the same for every frame of one pass: once
\* the first frame of a pass has been processed and while a further frame is
\* awaited, no setCalibration call changes the target or the exclude
\* position.
C30_HintsFixedDuringPass ==
    [][pc = "seeking" /\ frameIndex >= 1 =>
          /\ calibratedTargetPos' = calibratedTargetPos
          /\ calibratedExcludePos' = calibratedExcludePos]_vars

=============================================================================
